---- MODULE Spec2Model ----
(***************************************************************************)
(* A model of the scoped symbol table (Chuck_Scope<T>) and of the          *)
(* namespace (Chuck_Namespace) declared in src/core/chuck_type.h.          *)
(*                                                                         *)
(* A Chuck_Scope is a vector `scope' of maps (frames) from identifier to   *)
(* object pointer, plus the staging map `commit_map'.  A map entry may     *)
(* hold the null pointer: std::map::operator[] inserts one whenever an     *)
(* absent key is read, and add() accepts a null value.                     *)
(***************************************************************************)
EXTENDS Integers, Sequences, FiniteSets, TLC

\* ------------------------------------------------------------------ bounds
\* the deepest frame stack the model explores (push is cut off there)
MaxDepth == 3

\* the most frames the three tables of a namespace hold together
MaxFrames == 4

\* the most references the model lets an object collect (add is cut off there)
MaxRefs == 2

\* the most remote links and the most direct dependencies the dependency
\* graphs hold together
MaxLinks == 3
MaxDirects == 1

\* ----------------------------------------------------------------- domains
\* the null pointer
NULL == "NULL"
\* the identifiers (S_Symbol): one plain name and one mangled name
Ids == {"x", "f@0"}
\* the objects (Chuck_VM_Object *) a caller may hand to add()
Syms == {"A", "B"}
\* what a map entry may hold
Vals == Syms \cup {NULL}
\* the (identifier, pointer) pairs handed to add(): every pointer, null
\* included, under the plain name, and one object under the mangled name
AddArgs == ({"x"} \X Vals) \cup {<<"f@0", "A">>}
\* the (level, includeMangled) pairs handed to get_level() for a stack of n
\* frames: get_toplevel with either flag, and the back frame with the default
LevelArgs(n) == ({0} \X BOOLEAN) \cup {<<n - 1, TRUE>>}
\* what the caller's vector out holds when it is handed to get_level()
OutArgs == {<<>>, <<"A">>}
\* the values of the climb argument that the code tells apart (<0, 0, >0)
Climbs == {"neg", "zero", "pos"}
\* the (identifier, climb) pairs handed to lookup(): the plain name with every
\* climb, the mangled name from the front frame
LookupArgs == ({"x"} \X Climbs) \cup {<<"f@0", "neg">>}
\* the iteration order of std::map<S_Symbol,...>: the order of the keys
IdOrder == <<"f@0", "x">>

\* a std::map with no entry
EmptyMap == [i \in {} |-> NULL]

\* all maps over the identifiers
Maps == UNION {[D -> Vals] : D \in SUBSET Ids}

\* std::map::operator[] as a read: the stored pointer, null when absent
At(m, xid) == IF xid \in DOMAIN m THEN m[xid] ELSE NULL

\* std::map::operator[] as it leaves the map: an absent key gets a null entry
Touch(m, xid) == IF xid \in DOMAIN m THEN m ELSE m @@ (xid :> NULL)

\* std::map::operator[] followed by an assignment
Put(m, xid, obj) == [i \in DOMAIN m \cup {xid} |-> IF i = xid THEN obj ELSE m[i]]

\* ------------------------------------------------- Chuck_Scope, one object
\* a Chuck_Scope value: the two data members
ScopeRec(sc, cm) == [scope |-> sc, commit_map |-> cm]

\* Chuck_Scope(): the constructor pushes one frame
NewScope == ScopeRec(<<EmptyMap>>, EmptyMap)

\* push(): a new empty frame at the back
push(s) == [s EXCEPT !.scope = Append(@, EmptyMap)]

\* pop(): drop the back frame (nothing it holds is released)
pop(s) == [s EXCEPT !.scope = SubSeq(@, 1, Len(@) - 1)]

\* reset() that drops the inner frames and keeps the front frame
reset_keepFront(s) ==
    IF Len(s.scope) = 0 THEN push(s) ELSE [s EXCEPT !.scope = SubSeq(@, 1, 1)]

\* reset(): clear the vector, push one frame; commit_map is not touched
reset(s) == push([s EXCEPT !.scope = <<>>])

\* commit() with the merge loop left out: the staging map is only cleared
commit_clearOnly(s) == [s EXCEPT !.commit_map = EmptyMap]

\* commit() that keeps a committed entry when one of the same name is staged
commit_keepOld(s) ==
    [scope |-> [s.scope EXCEPT ![1] =
                   [i \in DOMAIN s.scope[1] \cup DOMAIN s.commit_map |->
                       IF i \in DOMAIN s.scope[1] THEN s.scope[1][i]
                       ELSE s.commit_map[i]]],
     commit_map |-> EmptyMap]

\* commit(): every staged entry is written over the front frame, then the
\* staging map is cleared
commit(s) ==
    [scope |-> [s.scope EXCEPT ![1] =
                   [i \in DOMAIN s.scope[1] \cup DOMAIN s.commit_map |->
                       IF i \in DOMAIN s.commit_map THEN s.commit_map[i]
                       ELSE s.scope[1][i]]],
     commit_map |-> EmptyMap]

\* rollback() that also empties the back frame when it is not the front frame
rollback_backFrameToo(s) ==
    IF Len(s.scope) > 1
    THEN [scope |-> [s.scope EXCEPT ![Len(s.scope)] = EmptyMap], commit_map |-> EmptyMap]
    ELSE [s EXCEPT !.commit_map = EmptyMap]

\* rollback() without the final commit_map.clear()
rollback_keepStaged(s) == s

\* rollback(): the staging map is cleared (after releasing its entries)
rollback(s) == [s EXCEPT !.commit_map = EmptyMap]

\* rollback() calls release() through every staged pointer without a null
\* test: a staged null pointer is dereferenced
rollbackDerefsNull(s) == \E i \in DOMAIN s.commit_map : s.commit_map[i] = NULL

\* add() without the staging test: always into the back frame
add_direct(s, xid, obj) == [s EXCEPT !.scope[Len(s.scope)] = Put(@, xid, obj)]

\* add() that stages at every depth
add_staged(s, xid, obj) == [s EXCEPT !.commit_map = Put(@, xid, obj)]

\* add( xid, value ), its value written obj here: into the back frame
\* unless the back frame is the front frame, in which case into the staging map
add(s, xid, obj) ==
    IF Len(s.scope) # 1
    THEN [s EXCEPT !.scope[Len(s.scope)] = Put(@, xid, obj)]
    ELSE [s EXCEPT !.commit_map = Put(@, xid, obj)]

\* the search loop without its break: the outermost non-null pointer wins
RECURSIVE climbFrames_noBreak(_, _, _)
climbFrames_noBreak(sc, i, xid) ==
    IF i = 0 THEN [scope |-> sc, val |-> NULL]
    ELSE LET below == climbFrames_noBreak([sc EXCEPT ![i] = Touch(@, xid)], i - 1, xid)
         IN  IF below.val # NULL THEN below
             ELSE [below EXCEPT !.val = At(sc[i], xid)]

\* the search loop of lookup( xid, climb > 0 ): frames from the back, each
\* read with operator[], until one holds a non-null pointer.  Returns the
\* frames as the loop leaves them and the pointer found.
RECURSIVE climbFrames(_, _, _)
climbFrames(sc, i, xid) ==
    IF i = 0 THEN [scope |-> sc, val |-> NULL]
    ELSE LET sc1 == [sc EXCEPT ![i] = Touch(@, xid)]
             v   == At(sc[i], xid)
         IN  IF v # NULL THEN [scope |-> sc1, val |-> v]
             ELSE climbFrames(sc1, i - 1, xid)

\* the fall-back taken whether or not the frames gave an object
fromCommitMap_stagedFirst(s, xid, val, allowed) ==
    IF allowed /\ xid \in DOMAIN s.commit_map THEN s.commit_map[xid] ELSE val

\* the fall-back without the back-is-front test of the climb == 0 branch
fromCommitMap_always(s, xid, val, allowed) ==
    IF val = NULL /\ xid \in DOMAIN s.commit_map THEN s.commit_map[xid] ELSE val

\* the fall-back to the staging map shared by the three branches of lookup
fromCommitMap(s, xid, val, allowed) ==
    IF val = NULL /\ allowed /\ xid \in DOMAIN s.commit_map
    THEN s.commit_map[xid] ELSE val

\* lookup() whose climb < 0 branch reads scope.back() for scope.front()
lookup_negBack(s, xid, climb) ==
    LET n == Len(s.scope) IN
    IF climb = "pos" THEN
        LET r == climbFrames(s.scope, n, xid) IN
        [val |-> fromCommitMap(s, xid, r.val, TRUE),
         s   |-> [s EXCEPT !.scope = r.scope]]
    ELSE
        [val |-> fromCommitMap(s, xid, At(s.scope[n], xid), climb = "neg" \/ n = 1),
         s   |-> [s EXCEPT !.scope[n] = Touch(@, xid)]]

\* lookup() that tests climb != 0 where the code tests climb > 0: a negative
\* climb searches all frames
lookup_negClimbs(s, xid, climb) ==
    LET n == Len(s.scope) IN
    IF climb = "zero" THEN
        [val |-> fromCommitMap(s, xid, At(s.scope[n], xid), n = 1),
         s   |-> [s EXCEPT !.scope[n] = Touch(@, xid)]]
    ELSE
        LET r == climbFrames(s.scope, n, xid) IN
        [val |-> fromCommitMap(s, xid, r.val, TRUE),
         s   |-> [s EXCEPT !.scope = r.scope]]

\* lookup( xid, climb ): the pointer returned (val) and the object as the
\* call leaves it (s)
lookup(s, xid, climb) ==
    LET n == Len(s.scope) IN
    IF climb = "zero" THEN
        [val |-> fromCommitMap(s, xid, At(s.scope[n], xid), n = 1),
         s   |-> [s EXCEPT !.scope[n] = Touch(@, xid)]]
    ELSE IF climb = "pos" THEN
        LET r == climbFrames(s.scope, n, xid) IN
        [val |-> fromCommitMap(s, xid, r.val, TRUE),
         s   |-> [s EXCEPT !.scope = r.scope]]
    ELSE
        [val |-> fromCommitMap(s, xid, At(s.scope[1], xid), TRUE),
         s   |-> [s EXCEPT !.scope[1] = Touch(@, xid)]]

\* is_mangled() that finds no name mangled
is_mangled_never(name) == FALSE

\* is_mangled(name): the name contains '@'
is_mangled(name) == name = "f@0"

\* one loop of get_level: the pointers of map m in key order, mangled names
\* left out unless includeMangled
RECURSIVE listMap(_, _, _)
listMap(m, k, includeMangled) ==
    IF k > Len(IdOrder) THEN <<>>
    ELSE LET i == IdOrder[k] IN
         (IF i \in DOMAIN m /\ (includeMangled \/ ~is_mangled(i))
          THEN <<m[i]>> ELSE <<>>) \o listMap(m, k + 1, includeMangled)

\* get_level( level, out, includeMangled ): the content of out when the call
\* returns; out.clear() comes first, and level counts from the front frame
\* (0), which also lists the staging map
get_level(s, level, out, includeMangled) ==
    LET cleared == SubSeq(out, 1, 0) IN
    cleared
    \o listMap(s.scope[level + 1], 1, includeMangled)
    \o (IF level = 0 THEN listMap(s.commit_map, 1, includeMangled) ELSE <<>>)

\* get_toplevel( out, includeMangled )
get_toplevel(s, out, includeMangled) == get_level(s, 0, out, includeMangled)

\* ------------------------------------------ Chuck_Value_Dependency_Graph
\* the graph objects
Graphs == {"g1", "g2"}
\* the code positions: where a dependency's value is defined (`where'), and
\* the position a query asks about
Wheres == {2}
Positions == {1, 2}

\* Chuck_Value_Dependency_Graph() : token(0), no dependency of either kind
NewGraph == [token |-> 0, directs |-> <<>>, remotes |-> <<>>]

\* the null pointer to a dependency; a pointer to one is written <<where>>
NoDep == <<>>

\* no locate() has been called yet
NoQuery == [at |-> "idle", root |-> "g1", pos |-> 1, isClassDef |-> FALSE,
            stack |-> <<>>, result |-> NoDep, visits |-> {}, twice |-> FALSE,
            afterClear |-> FALSE]

\* add( dep ): one more direct dependency, dep.where written w
addDirect(G, g, w) == [G EXCEPT ![g].directs = Append(@, w)]

\* add( graph ): one more remote graph
addRemote(G, g, h) == [G EXCEPT ![g].remotes = Append(@, h)]

\* clear() that forgets the remote graphs
clear_directsOnly(G, g) == [G EXCEPT ![g].directs = <<>>]

\* clear(): all dependencies of the graph, direct and remote, are dropped
clear(G, g) == [G EXCEPT ![g].directs = <<>>, ![g].remotes = <<>>]

\* locateLocal( pos, isClassDef ): the first direct dependency recorded for
\* a position after pos, null when there is none
locateLocal(G, g, pos, isClassDef) ==
    LET hits == {k \in 1 .. Len(G[g].directs) : G[g].directs[k] > pos}
    IN  IF hits = {} THEN NoDep
        ELSE <<G[g].directs[CHOOSE k \in hits : \A j \in hits : k <= j]>>

\* the test that passes over a remote graph in locateRecursive with the
\* comparison lost: no graph is ever passed over
visited_never(G, h, searchToken) == FALSE

\* the remote graph h carries the token of the search in progress
visited(G, h, searchToken) == G[h].token = searchToken

\* ----------------------------------------------------------- Chuck_Context
\* enum { P_NONE = 0, P_CLASSES_ONLY, P_ALL_DONE }
P_NONE == 0
P_CLASSES_ONLY == 1
P_ALL_DONE == 2

\* the context objects, and the addresses new Chuck_Namespace may return
Ctxs == {"c1", "c2", "c3"}
NspcAddrs == {"n1", "n2", "n3"}

\* new Chuck_Namespace at address addr: its three tables are constructed
newNamespace(addr) ==
    [addr |-> addr, type |-> NewScope, value |-> NewScope, func |-> NewScope]

\* a context that has not been constructed
NoContext == [live |-> FALSE, progress |-> P_NONE, has_error |-> FALSE, nspc |-> NULL]

\* Chuck_Context() that starts out as fully done
newContext_allDone(addr) ==
    [live |-> TRUE, progress |-> P_ALL_DONE, has_error |-> FALSE,
     nspc |-> newNamespace(addr)]

\* Chuck_Context(): nspc = new Chuck_Namespace; has_error = FALSE;
\* progress = P_NONE
newContext(addr) ==
    [live |-> TRUE, progress |-> P_NONE, has_error |-> FALSE,
     nspc |-> newNamespace(addr)]

\* the addresses of the namespaces the constructed contexts hold
NspcInUse(C) == {C[c].nspc.addr : c \in {d \in Ctxs : C[d].live}}

\* one pass of type_engine_check_context over context cx: on success the
\* progress becomes `to', on failure has_error is set and the progress stays
checkPass(cx, to, ok) ==
    IF ok THEN [cx EXCEPT !.progress = to] ELSE [cx EXCEPT !.has_error = TRUE]

\* -------------------------------------------------------------- Chuck_Type
\* the type objects: the built-in ones, the classes a program may define and
\* the array types new_array_type may construct
BuiltinRefs == {"object", "array", "null", "int", "float"}
ClassRefs == {"A_", "B_", "C_"}
ArrayRefs == {"t1", "t2"}
TypeRefs == BuiltinRefs \cup ClassRefs \cup ArrayRefs

\* the order in which the classes are defined and the array types constructed
ClassOrder == <<"A_", "B_", "C_">>
ArrayOrder == <<"t1", "t2">>

\* the types handed to isa, to equals and to find_common_ancestor
IsaRefs == {"object", "null"} \cup ClassRefs \cup ArrayRefs
EqualsRefs == {"int", "float"} \cup ArrayRefs
AncestorRefs == {"object"} \cup ClassRefs

\* the depth and the element type handed to new_array_type
ArrayArgs == {<<1, "int">>, <<2, "int">>, <<2, "float">>, <<1, "A_">>, <<1, "C_">>}

\* a Chuck_Type: its kind tag (xid), parent, array_type and array_depth
\* (0: not an array)
TypeRec(xid, parent, elem, depth) ==
    [live |-> TRUE, xid |-> xid, parent |-> parent,
     array_type |-> elem, array_depth |-> depth]

\* a type object that has not been constructed
NoType == [live |-> FALSE, xid |-> "te_none", parent |-> NULL,
           array_type |-> NULL, array_depth |-> 0]

\* the built-in types: object is the root of the object types and the parent
\* of the array base type; null and the primitive types have no parent
Builtin ==
    [x \in BuiltinRefs |->
        CASE x = "object" -> TypeRec("te_object", NULL, NULL, 0)
          [] x = "array"  -> TypeRec("te_array", "object", NULL, 0)
          [] x = "null"   -> TypeRec("te_null", NULL, NULL, 0)
          [] x = "int"    -> TypeRec("te_int", NULL, NULL, 0)
          [] x = "float"  -> TypeRec("te_float", NULL, NULL, 0)]

\* equals() that does not look at the depth of arrays
RECURSIVE equals_anyDepth(_, _, _)
equals_anyDepth(T, x, y) ==
    /\ T[x].xid = T[y].xid
    /\ IF T[x].array_depth # 0 /\ T[y].array_depth # 0
       THEN equals_anyDepth(T, T[x].array_type, T[y].array_type)
       ELSE x = y

\* equals( lhs, rhs ): the same kind tag; for arrays the same depth and equal
\* element types; for the others the same declaration
RECURSIVE equals(_, _, _)
equals(T, x, y) ==
    /\ T[x].xid = T[y].xid
    /\ T[x].array_depth = T[y].array_depth
    /\ IF T[x].array_depth # 0 THEN equals(T, T[x].array_type, T[y].array_type)
       ELSE x = y

\* the walk up the parent chain of x, x itself first, that looks for a type
\* equal to y
RECURSIVE onChain(_, _, _)
onChain(T, x, y) ==
    IF x = NULL THEN FALSE
    ELSE equals(T, x, y) \/ onChain(T, T[x].parent, y)

\* isa() with the two arguments of the chain walk exchanged
RECURSIVE isa_swapped(_, _, _)
isa_swapped(T, x, y) ==
    \/ onChain(T, y, x)
    \/ T[x].xid = "te_null" /\ onChain(T, y, "object")
    \/ /\ T[x].array_depth # 0 /\ T[x].array_depth = T[y].array_depth
       /\ isa_swapped(T, T[x].array_type, T[y].array_type)

\* isa( lhs, rhs ): lhs is rhs or a descendant of rhs; null is-a every object
\* type; an array is-a an array of the same depth whose element type its own
\* element type is-a
RECURSIVE isa(_, _, _)
isa(T, x, y) ==
    \/ onChain(T, x, y)
    \/ T[x].xid = "te_null" /\ onChain(T, y, "object")
    \/ /\ T[x].array_depth # 0 /\ T[x].array_depth = T[y].array_depth
       /\ isa(T, T[x].array_type, T[y].array_type)

\* find_common_ancestor( lhs, rhs ): the first type on the parent chain of
\* lhs, lhs itself first, that is on the chain of rhs; the object root when
\* there is none
RECURSIVE find_common_ancestor(_, _, _)
find_common_ancestor(T, x, y) ==
    IF x = NULL THEN "object"
    ELSE IF onChain(T, y, x) THEN x
    ELSE find_common_ancestor(T, T[x].parent, y)

\* new_array_type( env, array_parent, depth, base_type, owner_nspc ): the
\* type object it constructs
new_array_type(array_parent, depth, base_type) ==
    TypeRec("te_array", array_parent, base_type, depth)

\* ------------------------------------------------------- reference counts
\* CK_SAFE_ADD_REF(value) with the reference taken twice
addRef_twice(r, obj) == IF obj = NULL THEN r ELSE [r EXCEPT ![obj] = @ + 2]

\* CK_SAFE_ADD_REF(value): one more reference on the object, nothing for a
\* null pointer
addRef(r, obj) == IF obj = NULL THEN r ELSE [r EXCEPT ![obj] = @ + 1]

\* the entries of map m that hold object o
Holders(m, o) == {i \in DOMAIN m : m[i] = o}

\* the loop of rollback(): release() through every staged pointer; a null
\* pointer that did not stop the process counts for nothing
releaseStaged(r, cm) == [o \in Syms |-> r[o] - Cardinality(Holders(cm, o))]

\* -------------------------------------------------------------------- state
VARIABLES
    scope,       \* Chuck_Scope::scope of the table under test
    commit_map,  \* Chuck_Scope::commit_map of the table under test
    ret,         \* the last call on the table: its name, arguments, result
    fault,       \* the process died in a call (null pointer dereference)
    hist,        \* history: how the calls since construction fit the
                 \* scenarios "adds, then rollback" and "adds, then commit,
                 \* then transient frames", and what the adds staged
    type,        \* Chuck_Namespace::type, a Chuck_Scope<Chuck_Type *>
    value,       \* Chuck_Namespace::value, a Chuck_Scope<Chuck_Value *>
    func,        \* Chuck_Namespace::func, a Chuck_Scope<Chuck_Func *>
    nhist,       \* history: the namespace when the current run of add,
                 \* lookup, push and pop calls began
    pc,          \* where the compiling task is in commit() or rollback()
    seen,        \* what the last call of a running task obtained
    stable,      \* history: the three tables as the last completed
                 \* Chuck_Namespace::commit() left them
    refs,        \* the reference count of each object (Chuck_VM_Object)
    graphs,      \* the Chuck_Value_Dependency_Graph objects: token, directs,
                 \* remotes of each
    query,       \* the locate() call in progress or last made: its
                 \* arguments, its call stack, its result; as history, the
                 \* graphs the walk in progress (resetRecursive, then
                 \* locateRecursive) has entered, whether it entered one
                 \* twice, and whether the call came after a clear()
    cleared,     \* history: the graphs on which clear() was called and
                 \* add() has not been called since
    ctxs,        \* the Chuck_Context objects: whether constructed, progress,
                 \* has_error, nspc of each
    types,       \* the Chuck_Type objects: whether constructed, xid, parent,
                 \* array_type, array_depth of each
    tret,        \* the last call on types: its name, arguments, result
    flat         \* history of the calls followed with the references: only
                 \* add, commit and rollback have been called so far

scopeVars == <<scope, commit_map, hist>>
nspcVars == <<type, value, func, nhist>>
concVars == <<pc, seen, stable>>
\* the variables that the calls on one table, on a namespace and of the two
\* tasks leave alone
depVars == <<graphs, query, cleared>>
typeVars == <<types, tret>>
afterCtxVars == <<typeVars>>
afterDepVars == <<ctxs, afterCtxVars>>
afterRefVars == <<depVars, afterDepVars>>
laterVars == <<refs, flat, afterRefVars>>
vars == <<scope, commit_map, ret, fault, hist, type, value, func, nhist, pc, seen, stable,
          refs, graphs, query, cleared, ctxs, types, tret, flat>>

\* the compiling task is in neither commit() nor rollback()
Idle == [at |-> "idle", tab |-> 0, pos |-> 0]

\* the table under test as one value
Self == ScopeRec(scope, commit_map)

Install(s) == scope' = s.scope /\ commit_map' = s.commit_map

\* ---- history of the calls (not program state)
\* phase "adds": only add calls (and reads) since the constructor;
\* "rolledback": those, then one rollback(); "committed": those, then one
\* commit(), then push(), add of identifiers that were not staged into a
\* transient frame, and pop() of transient frames; "other": anything else.
\* staged: the pointer last added under each identifier in phase "adds".
\* cycled: a transient frame holding an object was pushed and popped again.
HistInit == [phase |-> "adds", staged |-> EmptyMap, cycled |-> FALSE]
HistOther == [phase |-> "other", staged |-> EmptyMap, cycled |-> FALSE]

HistAdd(xid, obj) ==
    IF hist.phase = "adds" THEN [hist EXCEPT !.staged = Put(@, xid, obj)]
    ELSE IF hist.phase = "committed" /\ Len(scope) > 1 /\ xid \notin DOMAIN hist.staged
         THEN hist
    ELSE HistOther

HistEnd(phase) ==
    IF hist.phase = "adds" THEN [hist EXCEPT !.phase = phase] ELSE HistOther

HistPush == IF hist.phase = "committed" THEN hist ELSE HistOther

HistPop ==
    IF hist.phase = "committed" /\ Len(scope) > 1
    THEN [hist EXCEPT !.cycled = @ \/ \E i \in DOMAIN scope[Len(scope)] :
                                          scope[Len(scope)][i] # NULL]
    ELSE HistOther

\* ---- history of the calls on a namespace (not program state)
\* the tables of a namespace, in the order commit() and rollback() take them
Tables == <<"type", "value", "func">>

\* the identifiers and add() arguments used on a namespace's tables
NspcIds == {"x"}
NspcAddArgs == {<<"x", "A">>, <<"x", NULL>>}

\* what a run of calls is compared with at its end: a table's depth, its
\* outermost frame's bindings and the result of every lookup
Snap(s) ==
    [depth |-> Len(s.scope),
     outer |-> {<<i, s.scope[1][i]>> : i \in {j \in DOMAIN s.scope[1] : s.scope[1][j] # NULL}},
     look  |-> [a \in NspcIds \X Climbs |-> lookup(s, a[1], a[2]).val]]

\* ok: every call since `start' was an add, a lookup, a push or a pop, and no
\* table was popped below its depth at `start'; all3: the last call was a
\* commit() that found an object staged in each of the three tables, or a
\* rollback() that did and that ended such a run with every table back at its
\* starting depth
NHistAt(t, v, f, all3) ==
    [ok |-> TRUE, start |-> [type |-> Snap(t), value |-> Snap(v), func |-> Snap(f)],
     all3 |-> all3]
NHistInit == NHistAt(NewScope, NewScope, NewScope, FALSE)
NHistBroken == [NHistInit EXCEPT !.ok = FALSE]

\* ------------------------------------------------- the calls on one table
\* Chuck_Namespace(): its three tables are default-constructed
Init ==
    /\ scope = NewScope.scope
    /\ commit_map = NewScope.commit_map
    /\ ret = [op |-> "new"]
    /\ fault = FALSE
    /\ hist = HistInit
    /\ type = NewScope /\ value = NewScope /\ func = NewScope
    /\ nhist = NHistInit
    /\ pc = Idle
    /\ seen = [op |-> "none"]
    /\ stable = [type |-> NewScope, value |-> NewScope, func |-> NewScope]
    /\ refs = [o \in Syms |-> 0]
    /\ graphs = [g \in Graphs |-> NewGraph]
    /\ query = NoQuery
    /\ cleared = {}
    /\ ctxs = [c \in Ctxs |-> NoContext]
    /\ types = [x \in TypeRefs |-> IF x \in DOMAIN Builtin THEN Builtin[x] ELSE NoType]
    /\ tret = [op |-> "none"]
    /\ flat = TRUE

\* every member function but push and reset asserts scope.size() != 0
\* (get_level: scope.size() > level)
Alive == ~fault /\ Len(scope) # 0

Push ==
    /\ ~fault /\ Len(scope) < MaxDepth
    /\ Install(push(Self))
    /\ ret' = [op |-> "push"]
    /\ hist' = HistPush
    /\ UNCHANGED fault
    /\ UNCHANGED <<nspcVars, concVars, laterVars>>

Pop ==
    /\ Alive
    /\ Install(pop(Self))
    /\ ret' = [op |-> "pop"]
    /\ hist' = HistPop
    /\ UNCHANGED fault
    /\ UNCHANGED <<nspcVars, concVars, laterVars>>

Reset ==
    /\ ~fault
    /\ Install(reset(Self))
    /\ ret' = [op |-> "reset"]
    /\ hist' = HistOther
    /\ UNCHANGED fault
    /\ UNCHANGED <<nspcVars, concVars, laterVars>>

Commit ==
    /\ Alive
    /\ Install(commit(Self))
    /\ ret' = [op |-> "commit"]
    /\ hist' = HistEnd("committed")
    /\ UNCHANGED fault
    /\ UNCHANGED <<nspcVars, concVars, laterVars>>

\* rollback() either runs to its end or, when a staged pointer is null,
\* dereferences it: undefined behaviour, which ends the process or, should
\* the build get past the call, runs on to the end as well
Rollback ==
    /\ Alive
    /\ ret' = [op |-> "rollback"]
    /\ \/ /\ Install(rollback(Self))
          /\ hist' = HistEnd("rolledback")
          /\ UNCHANGED fault
       \/ /\ rollbackDerefsNull(Self)
          /\ fault' = TRUE
          /\ UNCHANGED <<scope, commit_map, hist>>
    /\ UNCHANGED <<nspcVars, concVars, laterVars>>

Add ==
    /\ Alive
    /\ \E a \in AddArgs :
          /\ Install(add(Self, a[1], a[2]))
          /\ hist' = HistAdd(a[1], a[2])
    /\ ret' = [op |-> "add"]
    /\ UNCHANGED fault
    /\ UNCHANGED <<nspcVars, concVars, laterVars>>

Lookup ==
    /\ Alive
    /\ \E a \in LookupArgs :
          LET xid == a[1]
              climb == a[2]
              r == lookup(Self, xid, climb) IN
          /\ Install(r.s)
          /\ ret' = [op |-> "lookup", xid |-> xid, climb |-> climb, val |-> r.val]
    /\ UNCHANGED <<fault, hist>>
    /\ UNCHANGED <<nspcVars, concVars, laterVars>>

GetLevel ==
    /\ Alive
    /\ \E a \in LevelArgs(Len(scope)), out \in OutArgs :
          /\ Len(scope) > a[1]
          /\ ret' = [op |-> "get_level", level |-> a[1], includeMangled |-> a[2],
                     out |-> get_level(Self, a[1], out, a[2])]
    /\ UNCHANGED <<scope, commit_map, fault, hist>>
    /\ UNCHANGED <<nspcVars, concVars, laterVars>>

Next ==
    \/ Push \/ Reset \/ Pop \/ Commit \/ Rollback
    \/ Add \/ Lookup \/ GetLevel

Spec == Init /\ [][Next]_vars

\* ------------------------------------------------------ reading the state
\* a frame binds an identifier when it holds an object under it; a null
\* entry (left by a lookup that missed, or added as null) binds nothing
Binds(m, xid) == xid \in DOMAIN m /\ m[xid] # NULL

\* the identifier-to-symbol bindings of a map
Bindings(m) == {<<i, m[i]>> : i \in {j \in DOMAIN m : m[j] # NULL}}

\* the permanent bindings: those of the outermost frame
OuterBindings == IF Len(scope) = 0 THEN {} ELSE Bindings(scope[1])

\* the frames of stack sc, counted from the front, that bind xid
Binders(sc, xid) == {i \in 1 .. Len(sc) : Binds(sc[i], xid)}

\* the largest member of a non-empty set of numbers
MaxOf(S) == CHOOSE i \in S : \A j \in S : j <= i

\* a state in which the member functions may be called
Callable == ~fault /\ Len(scope) # 0


\* ----------------------------- the calls on one table and the references
\* The same calls with the reference counts of the objects followed: add()
\* takes a reference, rollback() releases what is staged; pop(), reset() and
\* commit() release nothing.
RefAddArgs == {"x"} \X Vals

RefRest == <<hist, nspcVars, concVars, afterRefVars>>

RefPush ==
    /\ ~fault /\ Len(scope) < MaxDepth
    /\ Install(push(Self))
    /\ ret' = [op |-> "push"]
    /\ flat' = FALSE
    /\ UNCHANGED <<refs, fault, RefRest>>

\* pop(): "TODO: release contents of scope.back()"
RefPop ==
    /\ Alive
    /\ Install(pop(Self))
    /\ ret' = [op |-> "pop"]
    /\ flat' = FALSE
    /\ UNCHANGED <<refs, fault, RefRest>>

RefReset ==
    /\ ~fault
    /\ Install(reset(Self))
    /\ ret' = [op |-> "reset"]
    /\ flat' = FALSE
    /\ UNCHANGED <<refs, fault, RefRest>>

RefCommit ==
    /\ Alive
    /\ Install(commit(Self))
    /\ ret' = [op |-> "commit"]
    /\ UNCHANGED <<refs, flat, fault, RefRest>>

RefRollback ==
    /\ Alive
    /\ ret' = [op |-> "rollback"]
    /\ \/ /\ Install(rollback(Self))
          /\ refs' = releaseStaged(refs, commit_map)
          /\ UNCHANGED fault
       \/ /\ rollbackDerefsNull(Self)
          /\ fault' = TRUE
          /\ UNCHANGED <<scope, commit_map, refs>>
    /\ UNCHANGED <<flat, RefRest>>

RefAdd ==
    /\ Alive
    /\ \E a \in RefAddArgs :
          /\ a[2] # NULL => refs[a[2]] < MaxRefs
          /\ Install(add(Self, a[1], a[2]))
          /\ refs' = addRef(refs, a[2])
          /\ ret' = [op |-> "add", xid |-> a[1], obj |-> a[2]]
    /\ UNCHANGED <<flat, fault, RefRest>>

RefNext ==
    \/ RefPush \/ RefPop \/ RefReset \/ RefCommit \/ RefRollback \/ RefAdd

RefSpec == Init /\ [][RefNext]_vars

\* ------------------------------------ the calls on the dependency graphs
\* add() and clear() are single steps. locate() runs as its calls nest:
\* resetRecursive() first, then locateRecursive( pos, isClassDef ), each a
\* walk over the remote graphs that a frame of the call stack (the graph and
\* the index of the remote graph looked at next, 0 on entry) follows.
DepRest == <<scopeVars, ret, fault, nspcVars, concVars, refs, flat, afterDepVars>>

\* the sum of f[g] over the graphs
RECURSIVE SumOver(_, _)
SumOver(f, S) == IF S = {} THEN 0
                 ELSE LET g == CHOOSE h \in S : TRUE IN f[g] + SumOver(f, S \ {g})

Links == SumOver([g \in Graphs |-> Len(graphs[g].remotes)], Graphs)
Directs == SumOver([g \in Graphs |-> Len(graphs[g].directs)], Graphs)

DepAddDirect ==
    /\ query.at = "idle" /\ Directs < MaxDirects
    /\ \E g \in Graphs, w \in Wheres :
          /\ graphs' = addDirect(graphs, g, w)
          /\ cleared' = cleared \ {g}
    /\ query' = NoQuery
    /\ UNCHANGED DepRest

DepAddRemote ==
    /\ query.at = "idle" /\ Links < MaxLinks
    /\ \E g \in Graphs, h \in Graphs :
          /\ graphs' = addRemote(graphs, g, h)
          /\ cleared' = cleared \ {g}
    /\ query' = NoQuery
    /\ UNCHANGED DepRest

DepClear ==
    /\ query.at = "idle"
    /\ \E g \in Graphs :
          /\ graphs' = clear(graphs, g)
          /\ cleared' = cleared \cup {g}
    /\ query' = NoQuery
    /\ UNCHANGED DepRest

\* locate( pos, isClassDef ) is called on a graph: resetRecursive() is entered
DepLocate ==
    /\ query.at = "idle"
    /\ \E g \in Graphs, pos \in Positions, isClassDef \in BOOLEAN :
          query' = [at |-> "reset", root |-> g, pos |-> pos, isClassDef |-> isClassDef,
                    stack |-> <<[g |-> g, i |-> 0]>>, result |-> NoDep,
                    visits |-> {}, twice |-> FALSE, afterClear |-> g \in cleared]
    /\ UNCHANGED <<graphs, cleared, DepRest>>

\* the innermost call in progress
Top == query.stack[Len(query.stack)]

\* the token the walk in progress leaves on a graph: resetRecursive( 0 ),
\* locateRecursive( pos, isClassDef, 1 )
WalkToken == IF query.at = "reset" THEN 0 ELSE 1

\* the innermost call moves on to its next remote graph
Advance(stack) == [stack EXCEPT ![Len(stack)].i = @ + 1]

\* a call is entered.  resetRecursive: the graph takes the token.
\* locateRecursive: the graph's own dependencies are searched; a hit is
\* handed back through every caller, else the graph takes the token.
DepEnter ==
    /\ query.at # "idle" /\ Top.i = 0
    /\ LET g == Top.g
           dep == locateLocal(graphs, g, query.pos, query.isClassDef)
       IN  IF query.at = "reset"
           THEN /\ graphs' = [graphs EXCEPT ![g].token = WalkToken]
                /\ query' = [query EXCEPT !.stack = Advance(@),
                                          !.visits = @ \cup {g},
                                          !.twice = @ \/ g \in query.visits]
           ELSE IF dep # NoDep
           THEN /\ query' = [query EXCEPT !.at = "idle", !.stack = <<>>, !.result = dep,
                                          !.visits = @ \cup {g},
                                          !.twice = @ \/ g \in query.visits]
                /\ UNCHANGED graphs
           ELSE /\ graphs' = [graphs EXCEPT ![g].token = WalkToken]
                /\ query' = [query EXCEPT !.stack = Advance(@),
                                          !.visits = @ \cup {g},
                                          !.twice = @ \/ g \in query.visits]
    /\ UNCHANGED <<cleared, DepRest>>

\* one turn of the loop over the remote graphs: a graph that carries the
\* token is passed over, any other is called
DepNextRemote ==
    /\ query.at # "idle" /\ Top.i >= 1 /\ Top.i <= Len(graphs[Top.g].remotes)
    /\ LET h == graphs[Top.g].remotes[Top.i] IN
          query' = [query EXCEPT !.stack =
                       IF visited(graphs, h, WalkToken) THEN Advance(@)
                       ELSE Append(Advance(@), [g |-> h, i |-> 0])]
    /\ UNCHANGED <<graphs, cleared, DepRest>>

\* the loop is over and the call returns (locateRecursive: null); when it is
\* the outermost call, resetRecursive() gives way to locateRecursive() and
\* locateRecursive() to the caller of locate()
DepReturn ==
    /\ query.at # "idle" /\ Top.i > Len(graphs[Top.g].remotes)
    /\ query' = IF Len(query.stack) > 1
                THEN [query EXCEPT !.stack = SubSeq(@, 1, Len(@) - 1)]
                ELSE IF query.at = "reset"
                THEN [query EXCEPT !.at = "search", !.visits = {},
                                   !.stack = <<[g |-> query.root, i |-> 0]>>]
                ELSE [query EXCEPT !.at = "idle", !.stack = <<>>]
    /\ UNCHANGED <<graphs, cleared, DepRest>>

DepNext ==
    \/ DepAddDirect \/ DepAddRemote \/ DepClear \/ DepLocate
    \/ DepEnter \/ DepNextRemote \/ DepReturn

\* a call that has been entered runs on: the program is sequential
DepSpec == Init /\ [][DepNext]_vars /\ WF_vars(DepEnter \/ DepNextRemote \/ DepReturn)

\* ------------------------------------------------- the life of a context
CtxRest == <<scopeVars, ret, fault, nspcVars, concVars, refs, flat, depVars, afterCtxVars>>

\* type_engine_make_context: new Chuck_Context, whose constructor allocates
\* the namespace at an address no live object has
CtxNew ==
    /\ \E c \in Ctxs, addr \in NspcAddrs \ NspcInUse(ctxs) :
          /\ ~ctxs[c].live
          /\ ctxs' = [ctxs EXCEPT ![c] = newContext(addr)]
    /\ UNCHANGED CtxRest

\* type_engine_check_context, first pass (te_do_all, te_do_classes_only):
\* the classes are scanned
CtxScanClasses ==
    /\ \E c \in Ctxs, ok \in BOOLEAN :
          /\ ctxs[c].live /\ ~ctxs[c].has_error /\ ctxs[c].progress = P_NONE
          /\ ctxs' = [ctxs EXCEPT ![c] = checkPass(@, P_CLASSES_ONLY, ok)]
    /\ UNCHANGED CtxRest

\* type_engine_check_context, second pass (te_do_all, te_do_no_classes):
\* everything else is checked
CtxCheckAll ==
    /\ \E c \in Ctxs, ok \in BOOLEAN :
          /\ ctxs[c].live /\ ~ctxs[c].has_error /\ ctxs[c].progress = P_CLASSES_ONLY
          /\ ctxs' = [ctxs EXCEPT ![c] = checkPass(@, P_ALL_DONE, ok)]
    /\ UNCHANGED CtxRest

CtxNext == CtxNew \/ CtxScanClasses \/ CtxCheckAll

CtxSpec == Init /\ [][CtxNext]_vars

\* ---------------------------------------------------- the calls on types
TypeRest == <<scopeVars, ret, fault, nspcVars, concVars, refs, flat, depVars, ctxs>>

\* the type objects constructed so far
Live == {x \in TypeRefs : types[x].live}

\* a class definition is checked: a user type whose parent is object or a
\* class defined before
TypeDefineClass ==
    /\ \E c \in ClassRefs \ Live, p \in Live \cap ({"object"} \cup ClassRefs) :
          /\ c = ClassOrder[Cardinality(ClassRefs \cap Live) + 1]
          /\ types' = [types EXCEPT ![c] = TypeRec("te_user", p, NULL, 0)]
          /\ tret' = [op |-> "class", x |-> c, y |-> p]
    /\ UNCHANGED TypeRest

\* new_array_type over a live element type constructs an array type
TypeNewArray ==
    /\ \E r \in ArrayRefs \ Live, a \in ArrayArgs :
          /\ r = ArrayOrder[Cardinality(ArrayRefs \cap Live) + 1]
          /\ a[2] \in Live
          /\ types' = [types EXCEPT ![r] = new_array_type("array", a[1], a[2])]
          /\ tret' = [op |-> "new_array_type", x |-> a[2], depth |-> a[1], val |-> r]
    /\ UNCHANGED TypeRest

TypeIsa ==
    /\ \E x \in Live \cap IsaRefs, y \in Live \cap IsaRefs :
          tret' = [op |-> "isa", x |-> x, y |-> y, val |-> isa(types, x, y)]
    /\ UNCHANGED <<types, TypeRest>>

TypeEquals ==
    /\ \E x \in Live \cap EqualsRefs, y \in Live \cap EqualsRefs :
          tret' = [op |-> "equals", x |-> x, y |-> y, val |-> equals(types, x, y)]
    /\ UNCHANGED <<types, TypeRest>>

TypeCommonAncestor ==
    /\ \E x \in Live \cap AncestorRefs, y \in Live \cap AncestorRefs :
          tret' = [op |-> "find_common_ancestor", x |-> x, y |-> y,
                   val |-> find_common_ancestor(types, x, y)]
    /\ UNCHANGED <<types, TypeRest>>

TypeNext ==
    \/ TypeDefineClass \/ TypeNewArray
    \/ TypeIsa \/ TypeEquals \/ TypeCommonAncestor

TypeSpec == Init /\ [][TypeNext]_vars

\* ------------------------------------------- the calls on a namespace
\* Chuck_Namespace holds three tables as public members; callers push, pop,
\* add to and look up in each of them on its own, and commit or roll back
\* the three together.
Tab(t) == CASE t = "type" -> type [] t = "value" -> value [] t = "func" -> func

\* the three tables after the call, in the same order
TabNext(t) == CASE t = "type" -> type' [] t = "value" -> value' [] t = "func" -> func'

SetTab(t, s) ==
    /\ type'  = IF t = "type"  THEN s ELSE type
    /\ value' = IF t = "value" THEN s ELSE value
    /\ func'  = IF t = "func"  THEN s ELSE func

NspcFrames == Len(type.scope) + Len(value.scope) + Len(func.scope)

NspcAlive(t) == ~fault /\ Len(Tab(t).scope) # 0

NspcPush ==
    /\ ~fault /\ NspcFrames < MaxFrames
    /\ \E t \in {"type", "value", "func"} : SetTab(t, push(Tab(t)))
    /\ ret' = [op |-> "call"]
    /\ UNCHANGED <<nhist, fault, scopeVars, concVars, laterVars>>

NspcPop ==
    /\ \E t \in {"type", "value", "func"} :
          /\ NspcAlive(t)
          /\ SetTab(t, pop(Tab(t)))
          /\ nhist' = IF nhist.ok /\ Len(Tab(t).scope) > nhist.start[t].depth
                      THEN [nhist EXCEPT !.all3 = FALSE] ELSE NHistBroken
    /\ ret' = [op |-> "call"]
    /\ UNCHANGED <<fault, scopeVars, concVars, laterVars>>

NspcAdd ==
    /\ \E t \in {"type", "value", "func"}, a \in NspcAddArgs :
          /\ NspcAlive(t)
          /\ SetTab(t, add(Tab(t), a[1], a[2]))
    /\ ret' = [op |-> "call"]
    /\ nhist' = [nhist EXCEPT !.all3 = FALSE]
    /\ UNCHANGED <<fault, scopeVars, concVars, laterVars>>

NspcLookup ==
    /\ \E t \in {"type", "value", "func"}, xid \in NspcIds, climb \in Climbs :
          /\ NspcAlive(t)
          /\ SetTab(t, lookup(Tab(t), xid, climb).s)
    /\ ret' = [op |-> "call"]
    /\ nhist' = [nhist EXCEPT !.all3 = FALSE]
    /\ UNCHANGED <<fault, scopeVars, concVars, laterVars>>

\* table number j of the namespace with the first k tables replaced by their
\* image under committing or rolling back
Done(j, k, how) ==
    IF j > k THEN Tab(Tables[j])
    ELSE IF how = "commit" THEN commit(Tab(Tables[j])) ELSE rollback(Tab(Tables[j]))

\* the call stopped in table number k + 1: its assert failed or, in
\* rollback(), it dereferenced a staged null pointer; the k tables before it
\* are done
StopsAt(k, how) ==
    /\ \A j \in 1 .. k : Len(Tab(Tables[j]).scope) # 0
    /\ \/ Len(Tab(Tables[k + 1]).scope) = 0
       \/ how = "rollback" /\ rollbackDerefsNull(Tab(Tables[k + 1]))
    /\ type' = Done(1, k, how) /\ value' = Done(2, k, how) /\ func' = Done(3, k, how)
    /\ fault' = TRUE
    /\ UNCHANGED nhist

\* Chuck_Namespace::commit() with value.commit() left out
nspcCommit_skipValue(t, v, f) == [type |-> commit(t), value |-> v, func |-> commit(f)]

\* Chuck_Namespace::commit(): type.commit(); value.commit(); func.commit();
nspcCommit(t, v, f) == [type |-> commit(t), value |-> commit(v), func |-> commit(f)]

\* Chuck_Namespace::rollback() with func.rollback() left out
nspcRollback_skipFunc(t, v, f) == [type |-> rollback(t), value |-> rollback(v), func |-> f]

\* Chuck_Namespace::rollback(): type.rollback(); value.rollback(); func.rollback();
nspcRollback(t, v, f) == [type |-> rollback(t), value |-> rollback(v), func |-> rollback(f)]

InstallNspc(n) == type' = n.type /\ value' = n.value /\ func' = n.func

\* an object is staged in each of the three tables
AllStaged == \A j \in 1 .. 3 : Bindings(Tab(Tables[j]).commit_map) # {}

\* the call runs to its end, or stops in one of the tables
NspcCommit ==
    /\ ~fault
    /\ ret' = [op |-> "commit"]
    /\ \/ /\ \A j \in 1 .. 3 : Len(Tab(Tables[j]).scope) # 0
          /\ InstallNspc(nspcCommit(type, value, func))
          /\ nhist' = NHistAt(type', value', func', AllStaged)
          /\ UNCHANGED fault
       \/ \E k \in 0 .. 2 : StopsAt(k, "commit")
    /\ UNCHANGED <<scopeVars, concVars, laterVars>>

\* every table is back at the depth it had when the run of calls began
Balanced == \A j \in 1 .. 3 : Len(Tab(Tables[j]).scope) = nhist.start[Tables[j]].depth

NspcRollback ==
    /\ ~fault
    /\ ret' = [op |-> "rollback"]
    /\ \/ /\ \A j \in 1 .. 3 : Len(Tab(Tables[j]).scope) # 0
          /\ InstallNspc(nspcRollback(type, value, func))
          /\ nhist' = NHistAt(type', value', func', nhist.ok /\ Balanced /\ AllStaged)
          /\ UNCHANGED fault
       \/ \E k \in 0 .. 2 : StopsAt(k, "rollback")
    /\ UNCHANGED <<scopeVars, concVars, laterVars>>

NspcNext ==
    \/ NspcPush \/ NspcPop \/ NspcAdd \/ NspcLookup
    \/ NspcCommit \/ NspcRollback

NspcSpec == Init /\ [][NspcNext]_vars

\* ------------------------------------ a compiling task and a running task
\* The compiler stages a fragment in the tables of the global namespace and
\* then commits it or rolls it back, while shreds run. No member of
\* Chuck_Scope or of Chuck_Namespace takes a lock, so a call made by a
\* running task falls between any two statements of commit() or rollback().

\* what the compiler stages in each table
ConcAddArgs(t) ==
    CASE t = "type"  -> {<<"x", "A">>}
      [] t = "value" -> {<<"x", "A">>, <<"f@0", "A">>}
      [] t = "func"  -> {<<"f@0", "A">>}

\* the identifiers a running task looks up in each table
ConcIds(t) == {a[1] : a \in ConcAddArgs(t)}

\* std::map iteration: the position in the key order of the first entry of
\* m after position pos, 0 at end()
NextKey(m, pos) ==
    LET later == {i \in pos + 1 .. Len(IdOrder) : IdOrder[i] \in DOMAIN m}
    IN  IF later = {} THEN 0 ELSE CHOOSE i \in later : \A j \in later : i <= j

\* the table the compiler's call is working on
Cur == Tab(Tables[pc.tab])

\* the compiler moves on from table pc.tab: to the next table of the
\* namespace, or out of the call
AfterTable == IF pc.tab < 3 THEN [pc EXCEPT !.tab = @ + 1, !.pos = 0] ELSE Idle

\* the objects of a list
Objects(out) == SelectSeq(out, LAMBDA o : o # NULL)

\* compiler: add( xid, value ) on one of the tables
Stage ==
    /\ ~fault /\ pc.at = "idle"
    /\ \E t \in {"type", "value", "func"} : \E a \in ConcAddArgs(t) :
          SetTab(t, add(Tab(t), a[1], a[2]))
    /\ UNCHANGED <<pc, seen, stable, ret, fault, nhist, scopeVars, laterVars>>

\* compiler: enters Chuck_Namespace::commit() and, in it, type.commit()
BeginCommit ==
    /\ ~fault /\ pc.at = "idle"
    /\ pc' = [at |-> "commit", tab |-> 1, pos |-> 0]
    /\ UNCHANGED <<type, value, func, seen, stable, ret, fault, nhist, scopeVars, laterVars>>

\* compiler: one turn of the loop of Chuck_Scope::commit()
CommitEntry ==
    /\ ~fault /\ pc.at = "commit"
    /\ LET k == NextKey(Cur.commit_map, pc.pos) IN
          /\ k # 0
          /\ SetTab(Tables[pc.tab],
                    ScopeRec([Cur.scope EXCEPT ![1] =
                                 Put(@, IdOrder[k], Cur.commit_map[IdOrder[k]])],
                             Cur.commit_map))
          /\ pc' = [pc EXCEPT !.pos = k]
    /\ UNCHANGED <<seen, stable, ret, fault, nhist, scopeVars, laterVars>>

\* compiler: the loop is over; commit_map.clear(), and on to the next table
\* or out of Chuck_Namespace::commit()
CommitClear ==
    /\ ~fault /\ pc.at = "commit"
    /\ NextKey(Cur.commit_map, pc.pos) = 0
    /\ SetTab(Tables[pc.tab], ScopeRec(Cur.scope, EmptyMap))
    /\ pc' = AfterTable
    /\ stable' = IF pc.tab = 3 THEN [type |-> type', value |-> value', func |-> func']
                 ELSE stable
    /\ UNCHANGED <<seen, ret, fault, nhist, scopeVars, laterVars>>

\* compiler: enters Chuck_Namespace::rollback() and, in it, type.rollback()
BeginRollback ==
    /\ ~fault /\ pc.at = "idle"
    /\ pc' = [at |-> "rollback", tab |-> 1, pos |-> 0]
    /\ UNCHANGED <<type, value, func, seen, stable, ret, fault, nhist, scopeVars, laterVars>>

\* compiler: Chuck_Scope::rollback() on one table; its loop changes no map,
\* and it ends in commit_map.clear() or in the dereference of a null pointer
RollbackTable ==
    /\ ~fault /\ pc.at = "rollback"
    /\ \/ /\ SetTab(Tables[pc.tab], rollback(Cur))
          /\ pc' = AfterTable
          /\ UNCHANGED fault
       \/ /\ rollbackDerefsNull(Cur)
          /\ fault' = TRUE
          /\ UNCHANGED <<type, value, func, pc>>
    /\ UNCHANGED <<seen, stable, ret, nhist, scopeVars, laterVars>>

\* running task: lookup( xid, climb ) on one of the tables; asof is what the
\* same call returns on the tables as the last completed commit() left them
ReaderLookup ==
    /\ ~fault
    /\ \E t \in {"type", "value", "func"}, climb \in Climbs : \E xid \in ConcIds(t) :
          /\ SetTab(t, lookup(Tab(t), xid, climb).s)
          /\ seen' = [op |-> "lookup", val |-> lookup(Tab(t), xid, climb).val,
                      asof |-> lookup(stable[t], xid, climb).val]
    /\ UNCHANGED <<pc, stable, ret, fault, nhist, scopeVars, laterVars>>

\* running task: get_toplevel( out ) on one of the tables
ReaderGetToplevel ==
    /\ ~fault
    /\ \E t \in {"type", "value", "func"} :
          seen' = [op |-> "get_toplevel", val |-> Objects(get_toplevel(Tab(t), <<>>, TRUE)),
                   asof |-> Objects(get_toplevel(stable[t], <<>>, TRUE))]
    /\ UNCHANGED <<type, value, func, pc, stable, ret, fault, nhist, scopeVars, laterVars>>

ConcNext ==
    \/ Stage \/ BeginCommit \/ CommitEntry \/ CommitClear
    \/ BeginRollback \/ RollbackTable
    \/ ReaderLookup \/ ReaderGetToplevel

ConcSpec == Init /\ [][ConcNext]_vars

\* =================================================================== claims
\* ---- C1
\* a rollback() step that returned and that ends a run of add, lookup and
\* balanced push/pop calls begun with the three staging maps empty
EndsRunByRollback ==
    /\ ret'.op = "rollback" /\ ~fault' /\ scope' = scope
    /\ nhist.ok /\ Balanced

\* table t after the step compared with what it was when the run began
StagingEmptied(t) == TabNext(t).commit_map = EmptyMap
OuterRestored(t) == Snap(TabNext(t)).outer = nhist.start[t].outer
LookupsRestored(t) == Snap(TabNext(t)).look = nhist.start[t].look

C4_ReadersSeeLastCommit == seen.op # "none" => seen.val = seen.asof

\* ---- C6
\* C6: after Chuck_Namespace::commit() has returned, each of the three
\* staging maps is empty and every identifier that was staged in a table is
\* held by that table's outermost frame with the pointer that was staged.
C6_CommitMergesAllThree ==
    [][(ret'.op = "commit" /\ ~fault' /\ scope' = scope) =>
          \A j \in 1 .. 3 :
              /\ TabNext(Tables[j]).commit_map = EmptyMap
              /\ \A id \in DOMAIN Tab(Tables[j]).commit_map :
                    /\ id \in DOMAIN TabNext(Tables[j]).scope[1]
                    /\ TabNext(Tables[j]).scope[1][id] = Tab(Tables[j]).commit_map[id]]_vars

\* a commit() has just merged an object staged in each of the three tables
C6_Witness ==
    /\ ret.op = "commit" /\ ~fault /\ nhist.all3
    /\ \A j \in 1 .. 3 : /\ Bindings(Tab(Tables[j]).scope[1]) # {}
                         /\ Tab(Tables[j]).commit_map = EmptyMap

\* ---- C2
\* C2 (rollback atomicity): from a freshly constructed table, after any
\* sequence of add calls followed by a rollback() that returned, lookup of
\* every identifier that was added returns null (not-found) at every climb
\* level, both as lookup evaluates in that state and as the last call returned.
C2_RollbackAtomicity ==
    (hist.phase = "rolledback" /\ Callable) =>
        /\ \A id \in DOMAIN hist.staged, climb \in Climbs :
               lookup(Self, id, climb).val = NULL
        /\ (ret.op = "lookup" /\ ret.xid \in DOMAIN hist.staged) => ret.val = NULL

\* an object was staged under x, rollback() ran, and a lookup of x missed
C2_Witness ==
    /\ hist.phase = "rolledback" /\ Binds(hist.staged, "x")
    /\ ret.op = "lookup" /\ ret.xid = "x" /\ ret.val = NULL

\* ---- C3
\* C3 (commit durability): from a freshly constructed table, after any
\* sequence of add calls followed by commit(), lookup of every added
\* identifier returns the pointer last added under it, and goes on doing so
\* through later push() calls, adds of other identifiers into the transient
\* frames and the matching pop() calls: at every depth for climb > 0 and
\* climb < 0, and whenever the stack is back at depth 1 for climb = 0.
C3_CommitDurability ==
    hist.phase = "committed" =>
        /\ \A id \in DOMAIN hist.staged :
              /\ lookup(Self, id, "pos").val = hist.staged[id]
              /\ lookup(Self, id, "neg").val = hist.staged[id]
              /\ Len(scope) = 1 => lookup(Self, id, "zero").val = hist.staged[id]
        /\ (ret.op = "lookup" /\ ret.xid \in DOMAIN hist.staged
                /\ (ret.climb = "zero" => Len(scope) = 1))
              => ret.val = hist.staged[ret.xid]

\* x was added twice (last as B) and committed, a transient frame holding
\* another identifier was pushed and popped, and a lookup of x returned B
C3_Witness ==
    /\ hist.phase = "committed" /\ hist.cycled /\ Len(scope) = 1
    /\ At(hist.staged, "x") = "B"
    /\ ret.op = "lookup" /\ ret.xid = "x" /\ ret.val = "B"

\* ---- C5
\* C5 as claimed: a step that changes the identifier-to-symbol bindings of
\* the outermost frame is a commit() step.
C5_OnlyCommitMutates ==
    [][OuterBindings' # OuterBindings => ret'.op = "commit"]_vars

\* C5 as amended: a step of add, push, lookup, rollback, get_level or
\* get_toplevel, or of pop at depth greater than 1, leaves the
\* identifier-to-symbol bindings of the outermost frame as they were; they
\* change only in a step of commit(), of reset() (which discards them) or of
\* pop() at depth 1 (which removes the outermost frame).
C5_OnlyCommitResetPopMutate ==
    [][OuterBindings' # OuterBindings =>
          \/ ret'.op \in {"commit", "reset"}
          \/ ret'.op = "pop" /\ Len(scope) = 1]_vars

\* an add at depth 1 ran while the outermost frame held bindings
C5_Witness ==
    /\ OuterBindings # {} /\ Len(scope) = 1
    /\ ret.op = "add" /\ Bindings(commit_map) # {}

\* ---- C7
\* what a climbing search is to return for xid: the pointer of the innermost
\* frame that binds xid, else what the staging map holds under xid, else null
FirstBinding(sc, cm, xid) ==
    IF Binders(sc, xid) # {} THEN sc[MaxOf(Binders(sc, xid))][xid] ELSE At(cm, xid)

\* C7: lookup(id, climb > 0) returns the binding of id in the innermost frame
\* that binds it; only if no frame binds id, the staging map's; else null.
\* For every identifier in every reachable state, and for the last call.
C7_ClimbPositive ==
    Callable =>
        /\ \A id \in Ids :
              lookup(Self, id, "pos").val = FirstBinding(scope, commit_map, id)
        /\ (ret.op = "lookup" /\ ret.climb = "pos")
              => ret.val = FirstBinding(scope, commit_map, ret.xid)

\* a climbing lookup of x at depth 3 returned the middle frame's object while
\* the outermost frame and the staging map hold other objects under x and the
\* innermost frame does not bind x
C7_Witness ==
    /\ Len(scope) = 3 /\ Binders(scope, "x") = {1, 2}
    /\ scope[1]["x"] # scope[2]["x"] /\ Binds(commit_map, "x")
    /\ ret.op = "lookup" /\ ret.climb = "pos" /\ ret.xid = "x"
    /\ ret.val = scope[2]["x"]

\* ---- C8
\* what a global-only search is to return for xid
OuterBinding(sc, cm, xid) == IF Binds(sc[1], xid) THEN sc[1][xid] ELSE At(cm, xid)

\* C8: lookup(id, climb < 0) returns the outermost frame's binding of id,
\* else the staging map's, else null; the same as on the stack cut down to
\* its outermost frame, so no other frame bears on the result.
C8_ClimbNegative ==
    Callable =>
        /\ \A id \in Ids :
              /\ lookup(Self, id, "neg").val = OuterBinding(scope, commit_map, id)
              /\ lookup(Self, id, "neg").val
                    = lookup(ScopeRec(<<scope[1]>>, commit_map), id, "neg").val
        /\ (ret.op = "lookup" /\ ret.climb = "neg")
              => ret.val = OuterBinding(scope, commit_map, ret.xid)

\* a global-only lookup of x at depth 3 returned the staged object although
\* both inner frames bind x to another object
C8_Witness ==
    /\ Len(scope) = 3 /\ Binders(scope, "x") = {2, 3}
    /\ Binds(commit_map, "x")
    /\ scope[2]["x"] # commit_map["x"] /\ scope[3]["x"] # commit_map["x"]
    /\ ret.op = "lookup" /\ ret.climb = "neg" /\ ret.xid = "x"
    /\ ret.val = commit_map["x"]

\* ---- C9
\* C9: lookup(id, climb = 0) returns the innermost frame's binding of id; if
\* there is none it returns the staging map's at depth 1 and null at any
\* greater depth, whatever the outer frames and the staging map bind.
C9_ClimbZero ==
    Callable =>
        LET n == Len(scope)
            Want(id) == IF Binds(scope[n], id) THEN scope[n][id]
                        ELSE IF n = 1 THEN At(commit_map, id) ELSE NULL
        IN  /\ \A id \in Ids : lookup(Self, id, "zero").val = Want(id)
            /\ (ret.op = "lookup" /\ ret.climb = "zero") => ret.val = Want(ret.xid)

\* at depth 2 a lookup of x with climb 0 missed although the outermost frame
\* and the staging map both bind x
C9_Witness ==
    /\ Len(scope) = 2 /\ Binds(scope[1], "x") /\ Binds(commit_map, "x")
    /\ ret.op = "lookup" /\ ret.climb = "zero" /\ ret.xid = "x" /\ ret.val = NULL

\* ---- C10
\* an outer frame i binds id to a, and the innermost frame binds id to
\* another object
Shadowed(i, id) ==
    /\ i < Len(scope) /\ Binds(scope[i], id) /\ Binds(scope[Len(scope)], id)
    /\ scope[i][id] # scope[Len(scope)][id]

\* C10 as claimed: whichever outer frame holds A under x while the innermost
\* frame holds B, lookup(x, 1) returns B and lookup(x, -1) returns A.
C10_ShadowingAnyOuter ==
    Callable =>
        \A id \in Ids, i \in 1 .. Len(scope) :
            Shadowed(i, id) =>
                /\ lookup(Self, id, "pos").val = scope[Len(scope)][id]
                /\ lookup(Self, id, "neg").val = scope[i][id]

\* C10 as amended: whichever outer frame holds A under x while the innermost
\* frame holds B, lookup(x, 1) returns B; lookup(x, -1) returns A, at every
\* depth, when the frame holding A is the outermost one.
C10_ShadowingOutermost ==
    Callable =>
        /\ \A id \in Ids, i \in 1 .. Len(scope) :
              Shadowed(i, id) =>
                  /\ lookup(Self, id, "pos").val = scope[Len(scope)][id]
                  /\ i = 1 => lookup(Self, id, "neg").val = scope[1][id]
        /\ (ret.op = "lookup" /\ Shadowed(1, ret.xid) /\ ret.climb # "zero")
              => ret.val = IF ret.climb = "pos" THEN scope[Len(scope)][ret.xid]
                           ELSE scope[1][ret.xid]

\* at depth 3, with A under x in the outermost frame and B in the innermost,
\* a lookup of x with climb < 0 returned A
C10_Witness ==
    /\ Len(scope) = 3 /\ Shadowed(1, "x")
    /\ scope[1]["x"] = "A" /\ scope[3]["x"] = "B"
    /\ ret.op = "lookup" /\ ret.climb = "neg" /\ ret.xid = "x" /\ ret.val = "A"

\* ---- C11
\* map m1 is map m0 with obj stored under xid and nothing else changed
StoredIn(m0, m1, xid, obj) ==
    /\ DOMAIN m1 = DOMAIN m0 \cup {xid}
    /\ m1[xid] = obj
    /\ \A i \in DOMAIN m0 \ {xid} : m1[i] = m0[i]

\* C11: add(id, symbol) at depth 1 stores the binding in the staging map and
\* leaves every frame as it was; at depth greater than 1 it stores it in the
\* innermost frame and leaves the staging map and the other frames as they
\* were; either way the symbol's reference count goes up by exactly one and
\* no other count changes.
C11_TwoPhaseWrite ==
    [][(ret'.op = "add" /\ "obj" \in DOMAIN ret')
         => LET n == Len(scope) IN
            /\ n = 1 => /\ scope' = scope
                        /\ StoredIn(commit_map, commit_map', ret'.xid, ret'.obj)
            /\ n > 1 => /\ commit_map' = commit_map
                        /\ Len(scope') = n
                        /\ \A i \in 1 .. n - 1 : scope'[i] = scope[i]
                        /\ StoredIn(scope[n], scope'[n], ret'.xid, ret'.obj)
            /\ \A o \in Syms : refs'[o] = refs[o] + (IF o = ret'.obj THEN 1 ELSE 0)]_vars

\* A is staged and holds one reference; B has just been added under the same
\* name at depth 2 and holds one
C11_Witness ==
    /\ ret = [op |-> "add", xid |-> "x", obj |-> "B"]
    /\ Len(scope) = 2 /\ scope[2] = [x |-> "B"] /\ scope[1] = EmptyMap
    /\ commit_map = [x |-> "A"]
    /\ refs = [o \in Syms |-> 1]

\* ---- C12
\* C12: after commit() the staging map is empty and the outermost frame holds,
\* under every staged identifier, what was staged (whatever it held before)
\* and, under every other identifier, what it held before; no other frame
\* changes.
C12_CommitMergesAndClears ==
    [][(ret'.op = "commit" /\ ~fault')
          => /\ commit_map' = EmptyMap
             /\ Len(scope') = Len(scope)
             /\ \A i \in 2 .. Len(scope) : scope'[i] = scope[i]
             /\ DOMAIN scope'[1] = DOMAIN scope[1] \cup DOMAIN commit_map
             /\ \A id \in DOMAIN scope'[1] :
                   scope'[1][id] = IF id \in DOMAIN commit_map THEN commit_map[id]
                                   ELSE scope[1][id]]_vars

\* a commit() has left the outermost frame with B under the plain name and A
\* under the mangled one, below a transient frame
C12_Witness ==
    /\ ret.op = "commit" /\ ~fault
    /\ commit_map = EmptyMap
    /\ Len(scope) = 2 /\ scope[1] = [i \in Ids |-> IF i = "x" THEN "B" ELSE "A"]

\* ---- C13
\* the number of bindings map m holds on each object
Held(m) == [o \in Syms |-> Cardinality(Holders(m, o))]

\* C13: pop() takes from every object's reference count the number of
\* bindings the removed frame held on it.
C13_PopReleases ==
    [][(ret'.op = "pop" /\ Len(scope') = Len(scope) - 1)
          => \A o \in Syms : refs'[o] = refs[o] - Held(scope[Len(scope)])[o]]_vars

\* ---- C14
\* C14: whatever the stack held, reset() leaves it with exactly one frame,
\* and that frame has no entry.
C14_ResetLeavesOneEmptyFrame ==
    [][ret'.op = "reset" => Len(scope') = 1 /\ DOMAIN scope'[1] = {}]_vars

\* a reset() has just run with B staged under the plain name: one empty
\* frame is left, and the staged entry with it
C14_Witness ==
    /\ ret.op = "reset"
    /\ scope = <<EmptyMap>>
    /\ commit_map = [x |-> "B"]
    /\ hist.phase = "other"

\* ---- C15
\* the identifiers that contain '@'
MangledIds == {"f@0"}

\* the entries of map m that hold v under an identifier that is listed
Listed(m, v, includeMangled) ==
    {i \in DOMAIN m : m[i] = v /\ (includeMangled \/ i \notin MangledIds)}

\* how many times v occurs in list out
Occurs(out, v) == Cardinality({k \in 1 .. Len(out) : out[k] = v})

\* C15: what get_toplevel leaves in out is one pointer for every entry of the
\* outermost frame and of the staging map whose identifier has no '@' when
\* includeMangled is FALSE, one for every entry when it is TRUE, and nothing
\* else: nothing of what out held before.
C15_MangledFiltering ==
    (~fault /\ ret.op = "get_level" /\ ret.level = 0)
       => \A v \in Vals :
             Occurs(ret.out, v) = Cardinality(Listed(scope[1], v, ret.includeMangled))
                                  + Cardinality(Listed(commit_map, v, ret.includeMangled))

\* get_toplevel without the mangled names has just listed B, staged under the
\* plain name, and left out A, committed under the mangled name
C15_Witness ==
    /\ ret.op = "get_level" /\ ret.level = 0 /\ ~ret.includeMangled
    /\ ret.out = <<"B">>
    /\ "f@0" \in DOMAIN scope[1] /\ scope[1]["f@0"] = "A"
    /\ commit_map = [x |-> "B"]

\* ---- C16
\* C16: however the graphs are linked by add( graph ), self-loops and cycles
\* included, neither walk of a locate() enters a graph twice, and every
\* locate() that is called returns.
C16_LocateTerminates ==
    /\ [](~query.twice)
    /\ (query.at # "idle") ~> (query.at = "idle")

\* a locate() on g1 has returned null after entering both graphs, with g1 a
\* remote graph of itself and g1 and g2 remote graphs of each other
C16_Witness ==
    /\ query.at = "idle" /\ query.root = "g1"
    /\ query.visits = Graphs /\ query.result = NoDep
    /\ graphs["g1"].remotes = <<"g1", "g2">>
    /\ graphs["g2"].remotes = <<"g1">>

\* ---- C17
\* C17: a locate() called on a graph after clear() and before any add() on
\* that graph returns null, for every position and whatever the graphs held
\* before the clear().
C17_ClearedLocatesNothing ==
    (query.at = "idle" /\ query.afterClear) => query.result = NoDep

\* a locate() on g1 has returned null after a clear() of g1, while g2 still
\* holds the dependency that a locate() through g1 would have reached
C17_Witness ==
    /\ query.at = "idle" /\ query.afterClear /\ query.root = "g1" /\ query.pos = 1
    /\ query.visits = {"g1"} /\ query.result = NoDep
    /\ graphs["g2"].directs = <<2>>

\* ---- C18
\* C18: a context is constructed with progress P_NONE, has_error false and a
\* new namespace that no other context holds; from then on each step leaves
\* its progress where it is or moves it to the next of P_NONE,
\* P_CLASSES_ONLY, P_ALL_DONE, and once has_error is set it stays set and the
\* progress stays where it was.
C18_ContextLifecycle ==
    [][\A c \in Ctxs :
          LET a == ctxs[c]
              b == ctxs'[c]
          IN  /\ (~a.live /\ b.live) =>
                    /\ b.progress = P_NONE /\ ~b.has_error
                    /\ b.nspc.addr \notin NspcInUse(ctxs)
                    /\ b.nspc.type = NewScope /\ b.nspc.value = NewScope
                    /\ b.nspc.func = NewScope
              /\ a.live =>
                    /\ b.live /\ b.nspc = a.nspc
                    /\ b.progress = a.progress \/ b.progress = a.progress + 1
                    /\ b.progress <= P_ALL_DONE
                    /\ a.has_error => b.has_error /\ b.progress = a.progress]_vars

\* one context is fully done, one stopped with an error after its classes
\* were scanned, one stopped with an error before; each has its own namespace
C18_Witness ==
    /\ ctxs["c1"].live /\ ctxs["c1"].progress = P_ALL_DONE /\ ~ctxs["c1"].has_error
    /\ ctxs["c2"].live /\ ctxs["c2"].progress = P_CLASSES_ONLY /\ ctxs["c2"].has_error
    /\ ctxs["c3"].live /\ ctxs["c3"].progress = P_NONE /\ ctxs["c3"].has_error
    /\ Cardinality(NspcInUse(ctxs)) = 3

\* -------------------------------------------------------------------- C19
\* the types on the parent chain of x: x itself and whatever its parent links
\* lead to
RECURSIVE ChainOf(_)
ChainOf(x) == IF x = NULL THEN {} ELSE {x} \cup ChainOf(types[x].parent)

\* y is x or is reached by following the parent links of x
Reaches(x, y) == \E p \in ChainOf(x) : equals(types, p, y)

\* the class types: neither the null type nor an array type
Classes == {x \in Live : types[x].xid # "te_null" /\ types[x].array_depth = 0}

\* C19 as stated: in every hierarchy, for every two types X and Y, isa(X,Y)
\* holds exactly when Y is X or is reached by following X's parent links
C19_IsaIsTheParentChain ==
    \A x \in Live, y \in Live : isa(types, x, y) <=> Reaches(x, y)

\* C19, amended: for every two types X and Y that are neither the null type
\* nor array types, isa(X,Y) holds exactly when Y is X or is reached by
\* following X's parent links, and then find_common_ancestor of the two, in
\* either order, is Y; so for A <- B <- C, isa(C,A) and isa(C,B) hold,
\* isa(A,C) does not, and find_common_ancestor(B,A) is A
C19_IsaIsTheParentChainOfClasses ==
    /\ \A x \in Classes, y \in Classes :
          /\ isa(types, x, y) <=> Reaches(x, y)
          /\ Reaches(x, y) =>
                /\ find_common_ancestor(types, x, y) = y
                /\ find_common_ancestor(types, y, x) = y
    /\ tret.op = "isa" /\ tret.x \in Classes /\ tret.y \in Classes
          => (tret.val <=> Reaches(tret.x, tret.y))

\* the chain A <- B <- C has been defined and isa(C, A) has answered
C19_Witness ==
    /\ types["B_"].parent = "A_" /\ types["C_"].parent = "B_"
    /\ tret.op = "isa" /\ tret.x = "C_" /\ tret.y = "A_" /\ tret.val
    /\ ~isa(types, "A_", "C_")
    /\ find_common_ancestor(types, "B_", "A_") = "A_"

\* -------------------------------------------------------------------- C20
\* the array types constructed so far
Arrays == {x \in Live : types[x].array_depth # 0}

\* C20: two array types are equal exactly when their element types are the
\* same and their depths match: two calls of new_array_type with the same
\* depth and element give equal types, and a depth-2 array of int equals
\* neither a depth-1 array of int nor a depth-2 array of float
C20_ArrayTypeIdentity ==
    /\ \A a \in Arrays, b \in Arrays :
          equals(types, a, b) <=>
             /\ types[a].array_type = types[b].array_type
             /\ types[a].array_depth = types[b].array_depth
    /\ tret.op = "equals" /\ tret.x \in Arrays /\ tret.y \in Arrays
          => (tret.val <=>
                 /\ types[tret.x].array_type = types[tret.y].array_type
                 /\ types[tret.x].array_depth = types[tret.y].array_depth)
    /\ tret.op = "new_array_type"
          => /\ types[tret.val].array_depth = tret.depth
             /\ types[tret.val].array_type = tret.x

\* new_array_type(2, int) has been called twice and equals has compared the
\* two types it gave
C20_Witness ==
    /\ types["t1"].array_depth = 2 /\ types["t1"].array_type = "int"
    /\ types["t2"].array_depth = 2 /\ types["t2"].array_type = "int"
    /\ tret.op = "equals" /\ tret.x = "t1" /\ tret.y = "t2" /\ tret.val

\* -------------------------------------------------------------------- C21
\* C21: the stack of frames is never empty: whatever calls have been made
\* since the constructor, scope.size() != 0, so that assertion never fails.
C21_StackNeverEmpty == Len(scope) # 0

\* -------------------------------------------------------------------- C22
\* what get_level(k) lists for every valid level k of table s
Levels(s) == [k \in 0 .. Len(s.scope) - 1 |-> get_level(s, k, <<>>, TRUE)]

\* C22: a lookup, at any climb level and for any identifier, changes no frame
\* and not the staging map: get_level(k) lists the same for every valid k
\* before and after it.
C22_LookupReadOnly ==
    [][ret'.op = "lookup"
          => /\ scope' = scope /\ commit_map' = commit_map
             /\ Levels(ScopeRec(scope', commit_map')) = Levels(Self)]_vars

\* -------------------------------------------------------------------- C23
\* C23: after any sequence of add, commit and rollback at depth 1, the
\* references the table holds on a symbol are as many as the entries of the
\* outermost frame and of the staging map that are bound to it.
C23_ReferenceBalance ==
    (flat /\ ~fault)
       => \A o \in Syms : refs[o] = Held(scope[1])[o] + Held(commit_map)[o]

\* -------------------------------------------------------------------- C24
\* what lookup( id, climb ) returns from table s at every climb
Lookups(s, id) == [c \in Climbs |-> lookup(s, id, c).val]

\* C24: while the outermost frame binds id to A and an add( id, B ) is staged
\* at depth 1, lookup( id ) returns A at every climb; a commit() makes it
\* return B, a rollback() leaves it returning A.
C24_CommittedWinsUntilCommit ==
    [][\A id \in Ids :
          (~fault /\ Len(scope) = 1 /\ Binds(scope[1], id) /\ id \in DOMAIN commit_map)
             => /\ Lookups(Self, id) = [c \in Climbs |-> scope[1][id]]
                /\ (ret'.op = "lookup" /\ ret'.xid = id) => ret'.val = scope[1][id]
                /\ ret'.op = "commit"
                      => Lookups(ScopeRec(scope', commit_map'), id)
                            = [c \in Climbs |-> commit_map[id]]
                /\ (ret'.op = "rollback" /\ ~fault')
                      => Lookups(ScopeRec(scope', commit_map'), id)
                            = [c \in Climbs |-> scope[1][id]]]_vars

\* the outermost frame binds the plain name to A, B is staged under it at
\* depth 1, and a climbing lookup has just returned A
C24_Witness ==
    /\ Len(scope) = 1 /\ At(scope[1], "x") = "A" /\ At(commit_map, "x") = "B"
    /\ ret.op = "lookup" /\ ret.xid = "x" /\ ret.climb = "pos" /\ ret.val = "A"

\* -------------------------------------------------------------------- C25
\* C25: after reset(), from whatever state, lookup of every identifier gives
\* not-found at every climb and get_toplevel gives an empty list.
C25_ResetDiscardsStaged ==
    [][ret'.op = "reset"
          => /\ \A id \in Ids :
                   Lookups(ScopeRec(scope', commit_map'), id) = [c \in Climbs |-> NULL]
             /\ get_toplevel(ScopeRec(scope', commit_map'), <<>>, TRUE) = <<>>]_vars

\* -------------------------------------------------------------------- C26
\* commit() and rollback() leave the depth and every frame but the outermost
\* as they were
InnerFramesKept ==
    ret'.op \in {"commit", "rollback"}
       => /\ Len(scope') = Len(scope)
          /\ \A i \in 2 .. Len(scope) : scope'[i] = scope[i]

\* frame i, not the outermost, binds id before the step and not after it
InnerBindingGone(i, id) ==
    /\ i > 1 /\ Binds(scope[i], id)
    /\ ~(Len(scope') >= i /\ Binds(scope'[i], id))

C27_OneEntryPerIdentifier ==
    (~fault /\ ret.op = "get_level" /\ ret.level = 0 /\ ret.includeMangled)
       => Len(Objects(ret.out))
             = Cardinality({id \in Ids : Binds(scope[1], id) \/ Binds(commit_map, id)})

\* -------------------------------------------------------------------- C28
\* C28: rollback() runs to its end without a fault over every staging map
\* add can produce, one holding a null symbol included, and leaves it empty.
C28_RollbackNeverFaults ==
    [][ret'.op = "rollback" => ~fault' /\ commit_map' = EmptyMap]_vars

TypeOK ==
    /\ scope \in Seq(Maps) /\ Len(scope) <= MaxDepth
    /\ commit_map \in Maps
    /\ fault \in BOOLEAN
====
